---- MODULE Spec2Model ----
(***************************************************************************)
(* Model of src/server.js: the Express application that stores internship  *)
(* applications (with a PDF resume kept in a GridFS bucket) and general     *)
(* contact messages in MongoDB, lists them, and streams resumes back.       *)
(*                                                                          *)
(* Every HTTP request being handled is an element of reqs.  A request       *)
(* advances one await (or one stream event) at a time, so requests          *)
(* interleave exactly where the event loop lets the handlers interleave.    *)
(* A request that is answered leaves reqs and is kept, with its response,   *)
(* in sent until the next one is answered.                                  *)
(***************************************************************************)
EXTENDS Integers, Sequences, FiniteSets, TLC

VARIABLES
    cachedDb,           \* cachedDb/gfsBucket (set together): TRUE once connected
    fsFiles,            \* GridFS "resumes.files": ObjectId -> file document
    fsChunks,           \* GridFS "resumes.chunks": ObjectId -> chunks written so far
    InternshipContact,  \* the collection, in insertion (natural) order
    GeneralContact,     \* the collection, in insertion (natural) order
    now,                \* Date.now()
    nextId,             \* ObjectId generator of the process
    reqs,               \* the HTTP requests being handled, oldest first
    sent,               \* the request answered (or cut off) last, with its response
    received,           \* number of requests received so far
    uploads             \* history: fileId -> the submission that opened that upload stream

store == <<fsFiles, fsChunks, InternshipContact, GeneralContact>>

vars == <<cachedDb, fsFiles, fsChunks, InternshipContact, GeneralContact, now, nextId,
          reqs, sent, received, uploads>>

-----------------------------------------------------------------------------
(* Bounds of the model *)

MaxSubmit == 2      \* requests received in one behaviour of SpecSubmit

MaxFetch == 3       \* requests received in one behaviour of SpecResume

MaxList == 4        \* requests received in one behaviour of SpecList

MaxInFlight == 2    \* requests being handled at the same time

MaxClock == 1       \* Date.now() ranges over 0..MaxClock

ChunkSize == 2      \* bytes per GridFS chunk (the content is cut every ChunkSize bytes)

-----------------------------------------------------------------------------
(* ObjectId <-> its hexadecimal string, the :id of /api/resume/:id *)

HexBase == 16

ObjectIdLen == 24

NoId == -1

\* a character of an id string is a number: 0..15 are the hex digits, NotHex is any other
NotHex == HexBase

RECURSIVE HexDigits(_, _)
HexDigits(n, len) ==
    IF len = 0 THEN <<>> ELSE Append(HexDigits(n \div HexBase, len - 1), n % HexBase)

\* ObjectId.toString(): the 24 hex digits of the id
toHexString(id) == HexDigits(id, ObjectIdLen)

isValidHex(s) == Len(s) = ObjectIdLen /\ \A k \in 1..Len(s) : s[k] \in 0..(HexBase - 1)

RECURSIVE HexValue(_)
HexValue(s) ==
    IF s = <<>> THEN 0 ELSE HexValue(SubSeq(s, 1, Len(s) - 1)) * HexBase + s[Len(s)]

\* new mongoose.Types.ObjectId(req.params.id): throws on a malformed string
ObjectIdThrows(s) == ~isValidHex(s)

ObjectId(s) == HexValue(s)

\* `/api/resume/${fileId}`
resumeDownloadUrl(id) == <<"/api/resume/">> \o toHexString(id)

-----------------------------------------------------------------------------
(* multer: memoryStorage, limits.fileSize, fileFilter *)

fileSizeLimit == 5 * 1024 * 1024

NoFile == [present |-> FALSE, mimetype |-> "", size |-> 0, originalname |-> "", buffer |-> <<>>]

PdfFile(size, buffer) ==
    [present |-> TRUE, mimetype |-> "application/pdf", size |-> size,
     originalname |-> "cv.pdf", buffer |-> buffer]

PngFile(size, buffer) ==
    [present |-> TRUE, mimetype |-> "image/png", size |-> size,
     originalname |-> "me.png", buffer |-> buffer]

\* fileFilter: cb(null, true) only for application/pdf
fileFilter(file) == file.mimetype = "application/pdf"

\* busboy raises the limit once more than limits.fileSize bytes were read
LimitFileSize(file) == file.size > fileSizeLimit

\* upload.single("resume"): "" when the request goes on to the handler, otherwise the
\* message of the error handed to next(err)
upload(file) ==
    IF ~file.present THEN ""
    ELSE IF ~fileFilter(file) THEN "Only PDF files are allowed!"
    ELSE IF LimitFileSize(file) THEN "File too large"
    ELSE ""

-----------------------------------------------------------------------------
(* Requests *)

Fields == {"name", "lastName", "mobile", "email"}

\* !body.f : the field is absent or the empty string
Falsy(body, f) == f \notin DOMAIN body \/ body[f] = ""

Get(body, f) == IF f \in DOMAIN body THEN body[f] ELSE "undefined"

NewReq(kind, body, file, idParam) ==
    [file |-> file, body |-> body, kind |-> kind, idParam |-> idParam, pc |-> "connect",
     fileId |-> NoId, fileName |-> <<>>, doc |-> <<>>, found |-> <<>>,
     status |-> 0, text |-> "", data |-> <<>>,
     contentType |-> "", disposition |-> <<>>, headersSent |-> FALSE,
     fault |-> "", threw |-> FALSE, known |-> {}]

\* res.status(code).json({... message or error: text ...}) ends the request
Respond(r, code, text) ==
    [r EXCEPT !.pc = "done", !.status = code, !.text = text,
              !.contentType = "application/json", !.headersSent = TRUE]

\* the catch blocks: console.error, then the handler's own terminal response
Fail(r, code, text, fault) == [Respond(r, code, text) EXCEPT !.fault = fault]

Pending(r) == r.pc \notin {"done", "aborted"}

Remove(seq, i) == SubSeq(seq, 1, i - 1) \o SubSeq(seq, i + 1, Len(seq))

\* what the history keeps of a submission
Upload(r) == [buffer |-> r.file.buffer, pc |-> r.pc, fileName |-> r.fileName,
              status |-> r.status, fault |-> r.fault]

Track(r, ups) ==
    IF r.kind = "internship" /\ r.fileId # NoId THEN (r.fileId :> Upload(r)) @@ ups ELSE ups

\* request i goes on as r, or leaves with its response
Step(i, r) ==
    /\ reqs' = IF Pending(r) THEN [reqs EXCEPT ![i] = r] ELSE Remove(reqs, i)
    /\ sent' = IF Pending(r) THEN sent ELSE r
    /\ uploads' = Track(r, uploads)
    /\ UNCHANGED received

GeneralValidation(body) ==
    IF Falsy(body, "name") \/ Falsy(body, "email") THEN "Name and email are required" ELSE ""

\* mutant: the validation forgets the mobile number and the file
ValidationLax(body, file) ==
    IF Falsy(body, "name") \/ Falsy(body, "lastName") \/ Falsy(body, "email")
        THEN "All fields are required: name, lastName, email, and mobile"
    ELSE ""

\* the handler's validation: "" when the submission may be stored
Validation(body, file) ==
    IF \E f \in Fields : Falsy(body, f)
        THEN "All fields are required: name, lastName, email, and mobile"
    ELSE IF ~file.present THEN "Resume file is required"
    ELSE ""

\* the request is one its handler (or multer) refuses whatever the state of the store
InvalidInput(r) ==
    \/ r.kind = "internship" /\ (upload(r.file) # "" \/ Validation(r.body, r.file) # "")
    \/ r.kind = "general" /\ GeneralValidation(r.body) # ""
    \/ r.kind = "resume" /\ ObjectIdThrows(r.idParam)

\* a request is received (within the bounds of the model) and starts as r
Arrive(r, cap) ==
    /\ received < cap
    /\ Len(reqs) < MaxInFlight
    /\ received' = received + 1
    /\ reqs' = IF Pending(r) THEN Append(reqs, r) ELSE reqs
    /\ sent' = IF Pending(r) THEN sent ELSE r
    /\ UNCHANGED <<cachedDb, store, now, nextId, uploads>>

-----------------------------------------------------------------------------
Init ==
    /\ cachedDb = FALSE
    /\ fsFiles = <<>>
    /\ fsChunks = <<>>
    /\ InternshipContact = <<>>
    /\ GeneralContact = <<>>
    /\ now = 0
    /\ nextId = 0
    /\ reqs = <<>>
    /\ sent = [NewReq("none", <<>>, NoFile, <<>>) EXCEPT !.pc = "none"]
    /\ received = 0
    /\ uploads = <<>>

\* time passes
Tick(cap) ==
    /\ now < cap
    /\ now' = now + 1
    /\ UNCHANGED <<cachedDb, store, nextId, reqs, sent, received, uploads>>

\* mongoose.connect can fail only while nothing is cached (lines 47-50 return the cache)
ConnectOutcomes == IF cachedDb THEN {TRUE} ELSE {TRUE, FALSE}

-----------------------------------------------------------------------------
(* POST /api/contact/internship *)

FullBody == [f \in Fields |-> "Ann"]

InternshipBodies ==
    {FullBody}
    \cup {[f \in Fields \ {g} |-> "Ann"] : g \in Fields}
    \cup {[FullBody EXCEPT ![g] = ""] : g \in Fields}

UploadedFiles ==
    { NoFile,
      PdfFile(1024, <<1>>),
      PdfFile(fileSizeLimit, <<2, 1, 3>>),
      PdfFile(fileSizeLimit + 1, <<1, 2, 3>>),
      PdfFile(6 * 1024 * 1024, <<2, 1>>),
      PngFile(1024, <<3>>) }

\* two resumes that pass multer, with different contents
StoredFiles == {PdfFile(1024, <<1>>), PdfFile(fileSizeLimit, <<2, 1, 3>>)}

\* an error multer hands to next(err) reaches Express's default error handler (the
\* application installs no error middleware): status 500, an HTML page
DefaultErrorHandler(r, text) ==
    [Respond(r, 500, text) EXCEPT !.contentType = "text/html"]

\* upload.single("resume") runs before the handler
ArriveInternship(bodies, files, cap) ==
    \E body \in bodies, file \in files :
        LET r == NewReq("internship", body, file, <<>>) IN
        Arrive(IF upload(file) # "" THEN DefaultErrorHandler(r, upload(file)) ELSE r, cap)

\* lines 157-171: the upload stream is opened under a fresh ObjectId
OpenUploadStream(r, id, t) ==
    [r EXCEPT !.pc = "upload", !.fileName = <<"resume", t, r.file.originalname>>, !.fileId = id]

\* lines 138-171: await connectToDatabase(), validation, openUploadStream
InternshipConnect(i) ==
    LET r == reqs[i] IN
    /\ r.kind = "internship" /\ r.pc = "connect"
    /\ \E ok \in ConnectOutcomes :
         IF ~ok
           THEN /\ Step(i, Fail(r, 500, "Failed to save internship application", "connect"))
                /\ UNCHANGED <<cachedDb, fsChunks, nextId>>
           ELSE /\ cachedDb' = TRUE
                /\ IF Validation(r.body, r.file) # ""
                     THEN /\ Step(i, Respond(r, 400, Validation(r.body, r.file)))
                          /\ UNCHANGED <<fsChunks, nextId>>
                     ELSE /\ Step(i, OpenUploadStream(r, nextId, now))
                          /\ fsChunks' = (nextId :> <<>>) @@ fsChunks
                          /\ nextId' = nextId + 1
    /\ UNCHANGED <<fsFiles, InternshipContact, GeneralContact, now>>

\* the k-th chunk GridFS cuts from the buffer
Chunk(buffer, k) ==
    SubSeq(buffer, (k - 1) * ChunkSize + 1,
           IF k * ChunkSize < Len(buffer) THEN k * ChunkSize ELSE Len(buffer))

NumChunks(buffer) == (Len(buffer) + ChunkSize - 1) \div ChunkSize

\* readableStream.pipe(uploadStream): one chunk document is written
UploadChunk(i) ==
    LET r == reqs[i] IN
    /\ r.kind = "internship" /\ r.pc = "upload"
    /\ Len(fsChunks[r.fileId]) < NumChunks(r.file.buffer)
    /\ fsChunks' = [fsChunks EXCEPT ![r.fileId] =
                      Append(@, Chunk(r.file.buffer, Len(@) + 1))]
    /\ UNCHANGED <<cachedDb, fsFiles, InternshipContact, GeneralContact, now, nextId,
                   reqs, sent, received, uploads>>

\* new InternshipContact({...}): _id and createdAt (default Date.now) are set here
NewInternshipContact(r, id, t) ==
    [_id |-> id, name |-> Get(r.body, "name"), lastName |-> Get(r.body, "lastName"),
     mobile |-> Get(r.body, "mobile"), email |-> Get(r.body, "email"),
     resumeFileId |-> r.fileId, resumeFileName |-> r.fileName, createdAt |-> t]

\* the promise of lines 173-178 settles with "finish": the handler goes on to line 182
OnUploadFinish(r, id, t) ==
    [r EXCEPT !.pc = "save", !.doc = <<NewInternshipContact(r, id, t)>>]

\* mutant: "error" settles the promise like "finish" (.on("error", resolve))
OnUploadErrorResolves(r, id, t) ==
    [r EXCEPT !.pc = "save", !.doc = <<NewInternshipContact(r, id, t)>>, !.fault = "upload"]

\* the promise settles with "error": the await throws into the catch block
OnUploadError(r, id, t) ==
    Fail(r, 500, "Failed to save internship application", "upload")

\* "finish": every chunk is flushed and the files document is written
UploadFinish(i) ==
    LET r == reqs[i] IN
    /\ r.kind = "internship" /\ r.pc = "upload"
    /\ Len(fsChunks[r.fileId]) = NumChunks(r.file.buffer)
    /\ fsFiles' = (r.fileId :> [contentType |-> "application/pdf", filename |-> r.fileName,
                                length |-> Len(r.file.buffer)]) @@ fsFiles
    /\ Step(i, OnUploadFinish(r, nextId, now))
    /\ nextId' = nextId + 1
    /\ UNCHANGED <<cachedDb, fsChunks, InternshipContact, GeneralContact, now>>

\* "error": the write fails before the files document exists; nothing is retried
UploadError(i) ==
    LET r == reqs[i] IN
    /\ r.kind = "internship" /\ r.pc = "upload"
    /\ Step(i, OnUploadError(r, nextId, now))
    /\ nextId' = IF OnUploadError(r, nextId, now).doc # <<>> THEN nextId + 1 ELSE nextId
    /\ UNCHANGED <<cachedDb, store, now>>

\* res.json({success: true, ..., data: {...newContact.toObject(), resumeDownloadUrl}})
InternshipSaved(r) ==
    [Respond(r, 200, "Internship application saved successfully!") EXCEPT
        !.data = <<("resumeDownloadUrl" :> resumeDownloadUrl(r.fileId)) @@ r.doc[1]>>]

\* mutant: the catch block logs the error and still answers with success
InternshipSaveErrorSwallowed(r) ==
    [Respond(r, 200, "Internship application saved successfully!") EXCEPT !.fault = "insert"]

\* await newContact.save() rejects: the catch block answers, nothing is undone
InternshipSaveError(r) ==
    Fail(r, 500, "Failed to save internship application", "insert")

\* lines 182-208: newContact.save(), then the response
InternshipSave(i) ==
    LET r == reqs[i] IN
    /\ r.kind = "internship" /\ r.pc = "save"
    /\ \/ /\ InternshipContact' = Append(InternshipContact, r.doc[1])
          /\ Step(i, InternshipSaved(r))
       \/ /\ Step(i, InternshipSaveError(r))
          /\ UNCHANGED InternshipContact
    /\ UNCHANGED <<cachedDb, fsFiles, fsChunks, GeneralContact, now, nextId>>

-----------------------------------------------------------------------------
(* POST /api/contact/general *)

GeneralBodies ==
    { [name |-> "Ann", email |-> "ann@x.io", subject |-> "hello"],
      [email |-> "ann@x.io", subject |-> "hello"],
      [name |-> "Ann", email |-> ""] }

ArriveGeneral(cap) ==
    \E body \in GeneralBodies : Arrive(NewReq("general", body, NoFile, <<>>), cap)

\* new GeneralContact({name, mobile, email, subject, message})
NewGeneralContact(r, id, t) ==
    [_id |-> id, name |-> Get(r.body, "name"), mobile |-> Get(r.body, "mobile"),
     email |-> Get(r.body, "email"), createdAt |-> t,
     subject |-> Get(r.body, "subject"), message |-> Get(r.body, "message")]

\* lines 216-234
GeneralConnect(i) ==
    LET r == reqs[i] IN
    /\ r.kind = "general" /\ r.pc = "connect"
    /\ \E ok \in ConnectOutcomes :
         IF ~ok
           THEN /\ Step(i, Fail(r, 500, "Failed to save message", "connect"))
                /\ UNCHANGED <<cachedDb, nextId>>
           ELSE /\ cachedDb' = TRUE
                /\ IF GeneralValidation(r.body) # ""
                     THEN /\ Step(i, Respond(r, 400, GeneralValidation(r.body)))
                          /\ UNCHANGED nextId
                     ELSE /\ Step(i, [r EXCEPT !.pc = "save",
                                               !.doc = <<NewGeneralContact(r, nextId, now)>>])
                          /\ nextId' = nextId + 1
    /\ UNCHANGED <<store, now>>

\* lines 236-250
GeneralSave(i) ==
    LET r == reqs[i] IN
    /\ r.kind = "general" /\ r.pc = "save"
    /\ \/ /\ GeneralContact' = Append(GeneralContact, r.doc[1])
          /\ Step(i, [Respond(r, 200, "Message saved successfully!") EXCEPT !.data = r.doc])
       \/ /\ Step(i, Fail(r, 500, "Failed to save message", "insert"))
          /\ UNCHANGED GeneralContact
    /\ UNCHANGED <<cachedDb, fsFiles, fsChunks, InternshipContact, now, nextId>>

-----------------------------------------------------------------------------
(* GET /api/contacts/internship, GET /api/contacts/general *)

ArriveList(cap) ==
    \E kind \in {"listInternship", "listGeneral"} : Arrive(NewReq(kind, <<>>, NoFile, <<>>), cap)

ListMessage(kind) ==
    IF kind = "listInternship" THEN "Failed to fetch internship contacts"
    ELSE "Failed to fetch general contacts"

\* await connectToDatabase() of lines 292 and 312
ListConnect(i) ==
    LET r == reqs[i] IN
    /\ r.kind \in {"listInternship", "listGeneral"} /\ r.pc = "connect"
    /\ \E ok \in ConnectOutcomes :
         IF ~ok
           THEN /\ Step(i, Fail(r, 500, ListMessage(r.kind), "connect"))
                /\ UNCHANGED cachedDb
           ELSE /\ cachedDb' = TRUE
                /\ Step(i, [r EXCEPT !.pc = "find"])
    /\ UNCHANGED <<store, now, nextId>>

Orders(n) == {p \in [1..n -> 1..n] : \A a, b \in 1..n : p[a] = p[b] => a = b}

\* mutant: sort({createdAt: 1})
createdAtAsc(a, b) == a.createdAt <= b.createdAt

\* the comparison of sort({createdAt: -1}): a may come before b
createdAtDesc(a, b) == a.createdAt >= b.createdAt

\* find().sort({createdAt: -1}): the documents of the collection, newest first.  The
\* sort names no other key, so MongoDB returns documents of equal createdAt in any order
Sorted(coll) ==
    { [k \in 1..Len(coll) |-> coll[p[k]]] : p \in
        {q \in Orders(Len(coll)) :
            \A k \in 1..(Len(coll) - 1) : createdAtDesc(coll[q[k]], coll[q[k + 1]])} }

\* the collection a listing reads
Collection(kind) == IF kind = "listInternship" THEN InternshipContact ELSE GeneralContact

\* lines 294-304 and 314-324: res.json({success: true, data: contacts})
ListFind(i) ==
    LET r == reqs[i] IN
    /\ r.kind \in {"listInternship", "listGeneral"} /\ r.pc = "find"
    /\ \/ \E contacts \in Sorted(Collection(r.kind)) :
            Step(i, [Respond(r, 200, "") EXCEPT !.found = Collection(r.kind), !.data = contacts])
       \/ Step(i, Fail(r, 500, ListMessage(r.kind), "find"))
    /\ UNCHANGED <<cachedDb, store, now, nextId>>

-----------------------------------------------------------------------------
(* GET /api/resume/:id *)

\* ids asked for: the first ObjectIds the process generates, and three malformed strings
ResumeIds ==
    {toHexString(n) : n \in 0..1}
    \cup {<<NotHex>>, HexDigits(0, ObjectIdLen - 1), [toHexString(0) EXCEPT ![ObjectIdLen] = NotHex]}

\* the resumes whose submission was answered with success
Answered == {id \in DOMAIN uploads : uploads[id].status = 200}

\* the request remembers which submissions were answered before it was received
ArriveResume(cap) ==
    \E id \in ResumeIds :
        Arrive([NewReq("resume", <<>>, NoFile, id) EXCEPT !.known = Answered], cap)

\* the catch block of lines 282-285, whatever was thrown inside the try
ResumeCatch(r, fault) == Fail(r, 400, "Invalid resume ID", fault)

\* lines 257-259: await connectToDatabase(); new mongoose.Types.ObjectId(req.params.id)
ResumeConnect(i) ==
    LET r == reqs[i] IN
    /\ r.kind = "resume" /\ r.pc = "connect"
    /\ \E ok \in ConnectOutcomes :
         IF ~ok
           THEN /\ Step(i, ResumeCatch(r, "connect"))
                /\ UNCHANGED cachedDb
           ELSE /\ cachedDb' = TRUE
                /\ Step(i, IF ObjectIdThrows(r.idParam) THEN ResumeCatch(r, "")
                           ELSE [r EXCEPT !.pc = "find", !.fileId = ObjectId(r.idParam)])
    /\ UNCHANGED <<store, now, nextId>>

\* lines 269-274: the headers are set from the files document, the stream is opened
OpenDownloadStream(r, file) ==
    [r EXCEPT !.pc = "stream", !.contentType = "application/pdf",
              !.disposition = <<"inline; filename=", file.filename>>]

\* lines 261-281: gfsBucket.find({_id: fileId}).toArray(), then the stream
ResumeFind(i) ==
    LET r == reqs[i] IN
    /\ r.kind = "resume" /\ r.pc = "find"
    /\ \/ Step(i, ResumeCatch(r, "find"))
       \/ Step(i, IF r.fileId \notin DOMAIN fsFiles THEN Respond(r, 404, "Resume not found")
                  ELSE OpenDownloadStream(r, fsFiles[r.fileId]))
    /\ UNCHANGED <<cachedDb, store, now, nextId>>

\* mutant: the stream reads the first chunk again and again
ReadChunkFirst(id, k) == fsChunks[id][1]

\* the k-th chunk the download stream reads for file id
ReadChunk(id, k) == fsChunks[id][k]

\* downloadStream.pipe(res): the next chunk is written to the response; the first write
\* sends the status line (200) and the headers
DownloadChunk(i) ==
    LET r == reqs[i] IN
    /\ r.kind = "resume" /\ r.pc = "stream"
    /\ Len(r.data) < Len(fsChunks[r.fileId])
    /\ Step(i, [r EXCEPT !.data = Append(@, ReadChunk(r.fileId, Len(@) + 1)),
                         !.status = 200, !.headersSent = TRUE])
    /\ UNCHANGED <<cachedDb, store, now, nextId>>

\* "end" of the download stream: pipe ends the response
DownloadEnd(i) ==
    LET r == reqs[i] IN
    /\ r.kind = "resume" /\ r.pc = "stream"
    /\ Len(r.data) = Len(fsChunks[r.fileId])
    /\ Step(i, [r EXCEPT !.pc = "done", !.status = 200, !.headersSent = TRUE])
    /\ UNCHANGED <<cachedDb, store, now, nextId>>

\* res.status(500).json(...) of line 278 when the headers are already sent: Express
\* throws ERR_HTTP_HEADERS_SENT inside the "error" listener; the response stays as it is
Threw(r) == [r EXCEPT !.pc = "aborted", !.fault = "stream", !.threw = TRUE]

\* the "error" listener of lines 276-279
OnDownloadError(r) ==
    IF r.headersSent THEN Threw(r) ELSE Fail(r, 500, "Error downloading file", "stream")

\* a request cut off by the end of the process
Aborted(r) == [r EXCEPT !.pc = "aborted"]

RECURSIVE TrackAll(_, _)
TrackAll(rs, ups) == IF rs = <<>> THEN ups ELSE TrackAll(Tail(rs), Track(Aborted(Head(rs)), ups))

\* "error" of the download stream, before or after chunks were written.  The exception
\* thrown by the listener is caught by nobody: the Node.js process ends, the other
\* requests being handled are cut off and the next request starts from an empty cache
DownloadError(i) ==
    LET r == reqs[i] IN
    /\ r.kind = "resume" /\ r.pc = "stream"
    /\ IF OnDownloadError(r).threw
         THEN /\ reqs' = <<>>
              /\ sent' = OnDownloadError(r)
              /\ uploads' = TrackAll(reqs, uploads)
              /\ cachedDb' = FALSE
              /\ UNCHANGED received
         ELSE /\ Step(i, OnDownloadError(r))
              /\ UNCHANGED cachedDb
    /\ UNCHANGED <<store, now, nextId>>

-----------------------------------------------------------------------------
(* Specifications: the same handlers under three workloads *)

InternshipSteps(i) ==
    \/ InternshipConnect(i)
    \/ UploadChunk(i)
    \/ UploadFinish(i)
    \/ UploadError(i)
    \/ InternshipSave(i)

\* internship submissions of every shape
NextSubmit ==
    \/ Tick(MaxClock)
    \/ ArriveInternship(InternshipBodies, UploadedFiles, MaxSubmit)
    \/ \E i \in DOMAIN reqs : InternshipSteps(i)

SpecSubmit == Init /\ [][NextSubmit]_vars

\* submissions that pass multer and the validation, and downloads
NextResume ==
    \/ Tick(MaxClock)
    \/ ArriveInternship({FullBody}, StoredFiles, MaxFetch)
    \/ ArriveResume(MaxFetch)
    \/ \E i \in DOMAIN reqs :
         \/ InternshipSteps(i)
         \/ ResumeConnect(i)
         \/ ResumeFind(i)
         \/ DownloadChunk(i)
         \/ DownloadEnd(i)
         \/ DownloadError(i)

SpecResume == Init /\ [][NextResume]_vars

\* submissions of both kinds, and listings; the resumes are submitted first
NextList ==
    \/ Tick(MaxClock + 1)
    \/ ArriveInternship({FullBody}, {PdfFile(1024, <<1>>)}, MaxList - 2)
    \/ ArriveGeneral(MaxList)
    \/ ArriveList(MaxList)
    \/ \E i \in DOMAIN reqs :
         \/ InternshipSteps(i)
         \/ GeneralConnect(i)
         \/ GeneralSave(i)
         \/ ListConnect(i)
         \/ ListFind(i)

SpecList == Init /\ [][NextList]_vars

-----------------------------------------------------------------------------
(* Properties *)

\* the requests whose state is visible: those being handled and the one answered last
Visible == {reqs[i] : i \in DOMAIN reqs} \cup {sent}

RECURSIVE Flatten(_)
Flatten(chunks) == IF chunks = <<>> THEN <<>> ELSE Head(chunks) \o Flatten(Tail(chunks))

IsPrefix(a, b) == Len(a) <= Len(b) /\ SubSeq(b, 1, Len(a)) = a

Referenced(id) == \E k \in DOMAIN InternshipContact : InternshipContact[k].resumeFileId = id

Lists == {"listInternship", "listGeneral"}

\* C1: every persisted InternshipRecord refers to a blob that is present in the blob
\* store and fully written (all the uploaded bytes), and a submission builds and inserts
\* its record only after its own upload has finished
C1_RecordsReferToStoredBlobs ==
    /\ \A k \in DOMAIN InternshipContact :
         LET id == InternshipContact[k].resumeFileId IN
         /\ id \in DOMAIN fsFiles
         /\ id \in DOMAIN uploads
         /\ Flatten(fsChunks[id]) = uploads[id].buffer
         /\ fsFiles[id].length = Len(uploads[id].buffer)
    /\ \A r \in Visible :
         r.kind = "internship" /\ r.doc # <<>> =>
            r.fileId \in DOMAIN fsFiles /\ Flatten(fsChunks[r.fileId]) = r.file.buffer

\* a submission is stored while the upload of a concurrent one has failed half-way
C1_Witness ==
    /\ InternshipContact # <<>>
    /\ \E id \in DOMAIN uploads :
         uploads[id].fault = "upload" /\ fsChunks[id] # <<>> /\ id \notin DOMAIN fsFiles

\* C2: a submission whose file is not a PDF, or is larger than 5 MiB, is answered 400
\* and writes no blob and no record
C2_RejectedFileAnswers400 ==
    sent.kind = "internship" /\ sent.file.present
        /\ (sent.file.mimetype # "application/pdf" \/ sent.file.size > 5 * 1024 * 1024)
    => sent.status = 400 /\ sent.fileId = NoId /\ sent.doc = <<>>

\* name, lastName, mobile or email is missing or empty, or no file is supplied
Incomplete(r) ==
    r.kind = "internship" /\ ((\E f \in Fields : Falsy(r.body, f)) \/ ~r.file.present)

\* C3 as claimed: an incomplete internship submission is answered 400 and writes nothing
C3_IncompleteAnswers400 ==
    Incomplete(sent) /\ sent.pc = "done"
    => sent.status = 400 /\ sent.fileId = NoId /\ sent.doc = <<>>

\* C3 as amended: an incomplete internship submission never opens an upload stream and
\* never builds a record, and is never answered with success; once multer has passed it
\* to the handler it is answered 400 by the validation, unless the connection to the
\* store, which the handler awaits first, fails: then it is answered 500
C3_IncompleteNeverStored ==
    \A r \in Visible :
        Incomplete(r) =>
            /\ r.fileId = NoId
            /\ r.doc = <<>>
            /\ r.pc # "done" => r.status = 0
            /\ r.pc = "done" =>
                 /\ r.status # 200
                 /\ upload(r.file) = "" =>
                      r.status = (IF r.fault = "connect" THEN 500 ELSE 400)

\* a submission without mobile number, and one without file, answered 400 with the store
\* untouched
C3_Witness ==
    /\ sent.kind = "internship" /\ sent.status = 400
    /\ "mobile" \notin DOMAIN sent.body
    /\ received = 2 /\ reqs = <<>> /\ DOMAIN fsChunks = {} /\ InternshipContact = <<>>

\* C4: a malformed id is answered 400 'Invalid resume ID', a well-formed id without blob
\* 404 'Resume not found', and neither answer is given in the other case
C4_InvalidIdAndNotFoundDistinct ==
    sent.kind = "resume" /\ sent.pc = "done" =>
        /\ ObjectIdThrows(sent.idParam) =>
              sent.status = 400 /\ sent.text = "Invalid resume ID"
        /\ ~ObjectIdThrows(sent.idParam) /\ ObjectId(sent.idParam) \notin DOMAIN fsFiles =>
              sent.status = 404 /\ sent.text = "Resume not found"

\* C5: an infrastructure fault during a download is answered 500, and 400 'Invalid resume
\* ID' is answered only for a malformed id
C5_FaultAnswers500 ==
    sent.kind = "resume" /\ sent.pc = "done" =>
        /\ sent.fault \in {"connect", "find"} => sent.status = 500
        /\ sent.text = "Invalid resume ID" => ObjectIdThrows(sent.idParam)

\* C6: a download of a resume whose submission succeeded sends the uploaded bytes, in
\* order, with Content-Type application/pdf and the stored filename; it ends with 200 and
\* exactly the uploaded bytes unless a fault of the store interrupts it; the stored blob
\* keeps the bytes and the name of its submission
C6_DownloadReturnsUploadedBytes ==
    /\ \A id \in Answered :
         /\ id \in DOMAIN fsFiles
         /\ fsFiles[id].filename = uploads[id].fileName
         /\ Flatten(fsChunks[id]) = uploads[id].buffer
    /\ \A r \in Visible :
         r.kind = "resume" =>
            /\ r.pc = "stream" \/ r.status = 200 =>
                 /\ r.fileId \in DOMAIN uploads
                 /\ IsPrefix(Flatten(r.data), uploads[r.fileId].buffer)
                 /\ r.contentType = "application/pdf"
                 /\ r.disposition = <<"inline; filename=", uploads[r.fileId].fileName>>
            /\ r.pc = "done" /\ r.status = 200 =>
                 Flatten(r.data) = uploads[r.fileId].buffer
            /\ r.pc = "done" /\ r.fault = "" /\ ~ObjectIdThrows(r.idParam)
                    /\ ObjectId(r.idParam) \in r.known =>
                 r.status = 200

\* two resumes with different contents are stored, and the one of several chunks is
\* downloaded in full while the same id is being downloaded again
C6_Witness ==
    /\ Cardinality(Answered) = 2
    /\ sent.kind = "resume" /\ sent.pc = "done" /\ sent.status = 200 /\ Len(sent.data) = 2
    /\ sent.fileId \in sent.known

\* the position of document d in the collection read by the listing
Position(coll, d) == CHOOSE k \in DOMAIN coll : coll[k] = d

\* the listing is answered with every document the collection held, each once
ListsAll(r) ==
    /\ Len(r.data) = Len(r.found)
    /\ \A k \in DOMAIN r.found : \E m \in DOMAIN r.data : r.data[m] = r.found[k]
    /\ IsPrefix(r.found, Collection(r.kind))

\* C7 as claimed: a listing returns all the records of its kind, createdAt descending,
\* records of equal createdAt in insertion order
C7_ListingStable ==
    sent.kind \in Lists /\ sent.status = 200 =>
        /\ ListsAll(sent)
        /\ \A k \in 1..(Len(sent.data) - 1) :
             \/ sent.data[k].createdAt > sent.data[k + 1].createdAt
             \/ /\ sent.data[k].createdAt = sent.data[k + 1].createdAt
                /\ Position(sent.found, sent.data[k]) < Position(sent.found, sent.data[k + 1])

\* C7 as amended: a listing returns all the records of its kind, createdAt descending
\* (records created at T1 < T2 < T3 are listed T3, T2, T1); the order among records of
\* equal createdAt is not determined
C7_ListingNewestFirst ==
    sent.kind \in Lists /\ sent.status = 200 =>
        /\ ListsAll(sent)
        /\ \A k \in 1..(Len(sent.data) - 1) :
             sent.data[k].createdAt >= sent.data[k + 1].createdAt

\* records created at T1 < T2 < T3, inserted in that order, are listed T3, T2, T1
C7_Witness ==
    /\ sent.kind \in Lists /\ sent.status = 200 /\ Len(sent.found) = 3
    /\ sent.found[1].createdAt < sent.found[2].createdAt
    /\ sent.found[2].createdAt < sent.found[3].createdAt
    /\ sent.data = <<sent.found[3], sent.found[2], sent.found[1]>>

\* C8: every record of a listing carries the download reference built from its
\* resumeFileId, /api/resume/<resumeFileId>
C8_ListedRecordsCarryDownloadUrl ==
    sent.kind = "listInternship" /\ sent.status = 200 =>
        \A k \in DOMAIN sent.data :
            /\ "resumeDownloadUrl" \in DOMAIN sent.data[k]
            /\ sent.data[k].resumeDownloadUrl = resumeDownloadUrl(sent.data[k].resumeFileId)

\* C9: when the record insert fails after the blob upload succeeded, the request is
\* answered 500, no record is persisted, and the blob stays in the store with no record
\* referring to it; once no request is being handled, a blob without a record referring
\* to it exists only because of such a failed insert
C9_OrphanOnlyAfterFailedInsert ==
    /\ \A id \in DOMAIN uploads :
         uploads[id].fault = "insert" =>
            /\ uploads[id].pc = "done" /\ uploads[id].status = 500
            /\ id \in DOMAIN fsFiles
            /\ Flatten(fsChunks[id]) = uploads[id].buffer
            /\ ~Referenced(id)
    /\ reqs = <<>> =>
         \A id \in DOMAIN fsFiles : ~Referenced(id) => uploads[id].fault = "insert"

\* every request is answered, one blob is an orphan and another has its record
C9_Witness ==
    /\ reqs = <<>>
    /\ \E id \in DOMAIN fsFiles : ~Referenced(id) /\ uploads[id].fault = "insert"
    /\ \E id \in DOMAIN fsFiles : Referenced(id)

\* C10: a failure of the blob write, of the record insert or of the download stream ends
\* the request with one 500 response, never with a success status, and no response is
\* attempted on a response that has already started
C10_FailureEndsWithOne500 ==
    sent.fault \in {"upload", "insert", "stream"} => sent.status = 500 /\ ~sent.threw

====
